---- MODULE Spec2Model ----
(***************************************************************************)
(* Kaleidoscope front end (d11wtq/kaleidoscope): the lexer (lexer.cpp),    *)
(* the precedence-climbing parser (parser.cpp), the lowering of the syntax *)
(* tree to IR (ast.cpp) and the REPL driver (runloop.cpp).                 *)
(*                                                                         *)
(* Characters are one-character strings, the input stream is a sequence of *)
(* characters, std::string values are sequences of characters.  Token      *)
(* codes of the enum are strings ("tok_eof", ...), a punctuation token is  *)
(* its character.  An AST node, an IR function, a basic block and an       *)
(* instruction are records; a null pointer is the record NULL.             *)
(***************************************************************************)
EXTENDS Integers, Sequences, FiniteSets, TLC

VARIABLES
  input,          \* characters of stdin that getchar() has not returned yet
  LastChar,       \* lexer.cpp:36   static int LastChar
  IdentifierStr,  \* lexer.cpp:27
  NumVal,         \* lexer.cpp:30
  CurTok,         \* parser.cpp:23
  TheModule,      \* ast.cpp:28     the module's function list
  Symbols,        \* ast.cpp:31     name -> value
  InsertBlock,    \* ast.cpp:30     the builder's insertion point
  nextFn,         \* identity of the next function object the backend allocates
  pc,             \* position of the process
  given,          \* the input the run was started with (history)
  last            \* what the last step did (history)

vars == <<input, LastChar, IdentifierStr, NumVal, CurTok, TheModule, Symbols,
          InsertBlock, nextFn, pc, given, last>>

NULL == [kind |-> "NULL"]

-----------------------------------------------------------------------------
(* lexer.cpp *)

EOF == "EOF"

\* Character code 0, the value of a static int before its first assignment.
NUL == "NUL"

tok_eof        == "tok_eof"
tok_def        == "tok_def"
tok_extern     == "tok_extern"
tok_identifier == "tok_identifier"
tok_number     == "tok_number"
tok_if         == "tok_if"
tok_then       == "tok_then"
tok_else       == "tok_else"

Token == {tok_eof, tok_def, tok_extern, tok_identifier, tok_number,
          tok_if, tok_then, tok_else}

isspace(c) == c \in {" ", "\n", "\t", "\r"}

isdigit(c) == c \in {"0", "1", "2", "3", "4", "5", "6", "7", "8", "9"}

isalpha(c) == c \in {"a", "b", "c", "d", "e", "f", "g", "h", "i", "j", "k", "l", "m",
                     "n", "o", "p", "q", "r", "s", "t", "u", "v", "w", "x", "y", "z",
                     "A", "B", "C", "D", "E", "F", "G", "H", "I", "J", "K", "L", "M",
                     "N", "O", "P", "Q", "R", "S", "T", "U", "V", "W", "X", "Y", "Z"}

isalnum(c) == isalpha(c) \/ isdigit(c)

\* The enum's codes are negative, every character code is in 0..255.
isascii(t) == t \notin Token

DigitVal(c) ==
  CASE c = "0" -> 0 [] c = "1" -> 1 [] c = "2" -> 2 [] c = "3" -> 3 [] c = "4" -> 4
    [] c = "5" -> 5 [] c = "6" -> 6 [] c = "7" -> 7 [] c = "8" -> 8 [] c = "9" -> 9

\* A double is the pair <<m, e>> standing for m / 10^e, with no trailing zero
\* in the fraction.
RECURSIVE Normalize(_)
Normalize(d) ==
  IF d[2] > 0 /\ d[1] % 10 = 0 THEN Normalize(<<d[1] \div 10, d[2] - 1>>) ELSE d

\* strtod: the longest prefix  digits [ '.' digits ]  of a run of digits and
\* dots; what follows a second dot is ignored.
RECURSIVE StrtodFrom(_, _, _, _)
StrtodFrom(str, m, e, dot) ==
  IF str = <<>> THEN Normalize(<<m, e>>)
  ELSE IF Head(str) = "."
       THEN IF dot THEN Normalize(<<m, e>>) ELSE StrtodFrom(Tail(str), m, e, TRUE)
       ELSE StrtodFrom(Tail(str), m * 10 + DigitVal(Head(str)),
                       IF dot THEN e + 1 ELSE e, dot)

strtod(str) == StrtodFrom(str, 0, 0, FALSE)

\* A lexer/parser state s is the record of the globals the front end reads
\* and writes: input, LastChar, IdentifierStr, NumVal, CurTok, plus err (the
\* lines written to stderr) and gets (the number of getNextToken calls).

\* A local variable: In applied to the value v it was assigned.
Let(v, In(_)) == In(v)

getchar(s) ==
  IF s.input = <<>> THEN [s EXCEPT !.LastChar = EOF]
  ELSE [s EXCEPT !.LastChar = Head(s.input), !.input = Tail(s.input)]

RECURSIVE SkipWhitespace(_)
SkipWhitespace(s) ==
  IF isspace(s.LastChar) THEN SkipWhitespace(getchar(s)) ELSE s

RECURSIVE ScanIdentifier(_)
ScanIdentifier(s) ==
  Let(getchar(s), LAMBDA t :
    IF isalnum(t.LastChar)
    THEN ScanIdentifier([t EXCEPT !.IdentifierStr = @ \o <<t.LastChar>>])
    ELSE t)

Keyword(str) ==
  CASE str = <<"d", "e", "f">>                -> tok_def
    [] str = <<"e", "x", "t", "e", "r", "n">> -> tok_extern
    [] str = <<"i", "f">>                     -> tok_if
    [] str = <<"t", "h", "e", "n">>           -> tok_then
    [] str = <<"e", "l", "s", "e">>           -> tok_else
    [] OTHER                                  -> tok_identifier

\* The do-while of the number scan; the result carries NumStr.
RECURSIVE ScanNumber(_, _)
ScanNumber(s, NumStr) ==
  Let(getchar(s), LAMBDA t :
    IF isdigit(t.LastChar) \/ t.LastChar = "."
    THEN ScanNumber(t, NumStr \o <<s.LastChar>>)
    ELSE [s |-> t, NumStr |-> NumStr \o <<s.LastChar>>])

RECURSIVE SkipComment(_)
SkipComment(s) ==
  Let(getchar(s), LAMBDA t :
    IF t.LastChar # "\n" /\ t.LastChar # EOF THEN SkipComment(t) ELSE t)

\* gettok: the state after the call and the token returned.
RECURSIVE gettok(_)
gettok(s0) ==
  Let(SkipWhitespace(s0), LAMBDA s :
    IF isalpha(s.LastChar)
    THEN Let(ScanIdentifier([s EXCEPT !.IdentifierStr = <<s.LastChar>>]), LAMBDA t :
           [s |-> t, tok |-> Keyword(t.IdentifierStr)])
    ELSE IF isdigit(s.LastChar) \/ s.LastChar = "."
    THEN Let(ScanNumber(s, <<>>), LAMBDA r :
           [s |-> [r.s EXCEPT !.NumVal = strtod(r.NumStr)], tok |-> tok_number])
    ELSE IF s.LastChar = "#"
    THEN gettok(SkipComment(s))
    ELSE IF s.LastChar = EOF
    THEN [s |-> s, tok |-> tok_eof]
    ELSE [s |-> getchar(s), tok |-> s.LastChar])

-----------------------------------------------------------------------------
(* ast.cpp: the node classes' constructors *)

NumberExprNode(val) == [kind |-> "Number", Val |-> val]

IdentifierExprNode(name) == [kind |-> "Identifier", Name |-> name]

BinaryExprNode(op, lhs, rhs) == [kind |-> "Binary", Op |-> op, LHS |-> lhs, RHS |-> rhs]

CallExprNode(callee, args) == [kind |-> "Call", Callee |-> callee, Args |-> args]

IfNode(cond, pass, fail) == [kind |-> "If", Cond |-> cond, Then |-> pass, Else |-> fail]

PrototypeNode(name, params) == [kind |-> "Prototype", Name |-> name, Params |-> params]

FunctionNode(prototype, body) == [kind |-> "Function", Prototype |-> prototype, Body |-> body]

-----------------------------------------------------------------------------
(* parser.cpp *)

getNextToken(s) ==
  Let(gettok(s), LAMBDA r : [r.s EXCEPT !.CurTok = r.tok, !.gets = @ + 1])

\* InitParser's table; std::map::operator[] gives 0 for a character not in it.
BinOpPrecedence(c) ==
  CASE c = "<" -> 10
    [] c = "+" -> 20
    [] c = "-" -> 20
    [] c = "*" -> 40
    [] c = "/" -> 40
    [] OTHER   -> 0

GetTokenPrecedence(s) ==
  IF ~isascii(s.CurTok) THEN -1
  ELSE IF BinOpPrecedence(s.CurTok) <= 0 THEN -1
  ELSE BinOpPrecedence(s.CurTok)

\* ExprError, PrototypeError, FunctionError: one line on stderr, a null node.
ExprError(s, Str) == [s |-> [s EXCEPT !.err = Append(@, Str)], node |-> NULL]

ParseNumberExpr(s) ==
  [s |-> getNextToken(s), node |-> NumberExprNode(s.NumVal)]

\* A std::vector handed on as a result.
Vector(list) == [kind |-> "vector", list |-> list]

\* BindsTighter with > for <: the climb is taken when the next operator binds
\* less tightly, and not when it binds tighter.
BindsTighter_Mut(TokPrec, NextPrec) == TokPrec > NextPrec

\* if (TokPrec < NextPrec): whether ParseBinOpRHS hands the right operand to a
\* deeper climb.
BindsTighter(TokPrec, NextPrec) == TokPrec < NextPrec

RECURSIVE ParseExpression(_), ParsePrimary(_), ParseParenExpr(_),
          ParseIdentifierExpr(_), ParseArgs(_, _), ParseBinOpRHS(_, _, _)

ParseParenExpr(s) ==
  Let(ParseExpression(getNextToken(s)), LAMBDA r :
    IF r.node = NULL THEN r
    ELSE IF r.s.CurTok # ")" THEN ExprError(r.s, "Expected ')'")
    ELSE [s |-> getNextToken(r.s), node |-> r.node])

\* The while (true) of the argument list; node carries Args.
ParseArgs(s, Args) ==
  Let(ParseExpression(s), LAMBDA r :
    IF r.node = NULL THEN r
    ELSE IF r.s.CurTok = ")" THEN [s |-> r.s, node |-> Vector(Append(Args, r.node))]
    ELSE IF r.s.CurTok # ","
         THEN ExprError(r.s, "Expected ',' or ')' in argument list")
    ELSE ParseArgs(getNextToken(r.s), Append(Args, r.node)))

ParseIdentifierExpr(s) ==
  Let(getNextToken(s), LAMBDA s1 :
    IF s1.CurTok # "("
    THEN [s |-> s1, node |-> IdentifierExprNode(s.IdentifierStr)]
    ELSE Let(getNextToken(s1), LAMBDA s2 :
           Let(IF s2.CurTok # ")" THEN ParseArgs(s2, <<>>)
               ELSE [s |-> s2, node |-> Vector(<<>>)], LAMBDA r :
             IF r.node = NULL THEN r
             ELSE [s |-> getNextToken(r.s),
                   node |-> CallExprNode(s.IdentifierStr, r.node.list)])))

ParsePrimary(s) ==
  CASE s.CurTok = tok_identifier -> ParseIdentifierExpr(s)
    [] s.CurTok = tok_number     -> ParseNumberExpr(s)
    [] s.CurTok = "("            -> ParseParenExpr(s)
    [] OTHER                     -> ExprError(s, "Unknown token, expecting expr")

\* TokPrec is GetTokenPrecedence(s) and BinOp is s.CurTok, both read before
\* the operator is consumed.
ParseBinOpRHS(s, ExprPrec, LHS) ==
  IF GetTokenPrecedence(s) < ExprPrec THEN [s |-> s, node |-> LHS]
  ELSE Let(ParsePrimary(getNextToken(s)), LAMBDA r :
         IF r.node = NULL THEN r
         ELSE Let(IF BindsTighter(GetTokenPrecedence(s), GetTokenPrecedence(r.s))
                  THEN ParseBinOpRHS(r.s, GetTokenPrecedence(s) + 1, r.node)
                  ELSE r, LAMBDA r2 :
                IF r2.node = NULL THEN r2
                ELSE ParseBinOpRHS(r2.s, ExprPrec,
                                   BinaryExprNode(s.CurTok, LHS, r2.node))))

ParseExpression(s) ==
  Let(ParsePrimary(s), LAMBDA r :
    IF r.node = NULL THEN r ELSE ParseBinOpRHS(r.s, 0, r.node))

\* The while (getNextToken() == tok_identifier) of the parameter list.
RECURSIVE ParseParams(_, _)
ParseParams(s, Params) ==
  Let(getNextToken(s), LAMBDA t :
    IF t.CurTok = tok_identifier
    THEN ParseParams(t, Append(Params, t.IdentifierStr))
    ELSE [s |-> t, Params |-> Params])

ParsePrototype(s) ==
  IF s.CurTok # tok_identifier
  THEN ExprError(s, "Expected function name in prototype")
  ELSE Let(getNextToken(s), LAMBDA s1 :
         IF s1.CurTok # "(" THEN ExprError(s1, "Expected '(' in prototype")
         ELSE Let(ParseParams(s1, <<>>), LAMBDA p :
                IF p.s.CurTok # ")"
                THEN ExprError(p.s, "Expected ')' in prototype")
                ELSE [s |-> getNextToken(p.s),
                      node |-> PrototypeNode(s.IdentifierStr, p.Params)]))

ParseFunction(s) ==
  Let(ParsePrototype(getNextToken(s)), LAMBDA p :
    IF p.node = NULL THEN p
    ELSE Let(ParseExpression(p.s), LAMBDA b :
           IF b.node = NULL THEN b
           ELSE [s |-> b.s, node |-> FunctionNode(p.node, b.node)]))

ParseExtern(s) == ParsePrototype(getNextToken(s))

ParseTopLevelExpr(s) ==
  Let(ParseExpression(s), LAMBDA r :
    IF r.node = NULL THEN r
    ELSE [s |-> r.s, node |-> FunctionNode(PrototypeNode(<<>>, <<>>), r.node)])

-----------------------------------------------------------------------------
(* ast.cpp: lowering.                                                      *)
(*                                                                         *)
(* An IR function is [id, name, args, blocks]: id is the identity of the   *)
(* object, args the names of its arguments, blocks its basic block list.   *)
(* A block is [id, label, insts], an instruction [id, op, a, b] with the   *)
(* operands a and b:  fadd/fsub/fmul/fdiv/fcmp_ult/fcmp_one a b,           *)
(* uitofp a,  call a = callee's id, b = arguments,  condbr a = condition,  *)
(* b = <<then, else>>,  br a = target,  ret a,  phi a = the incoming       *)
(* <<value, block>> pairs.  A value is a constant, an argument of a        *)
(* function or the result of an instruction.  The builder's folding of     *)
(* constant operands and the pass pipeline run on a finished function      *)
(* belong to the backend: a function stands here as it was emitted.        *)
(*                                                                         *)
(* A lowering state g holds the module (mod), Symbols, the builder's       *)
(* insertion point (cur), the allocation counters nextFn and nextId, the   *)
(* lines written to stderr (err), and two logs: reads, the look-ups of     *)
(* Symbols, and ifs, the blocks each lowered If saw.                       *)
(***************************************************************************)

EmptyMap == [n \in {} |-> NULL]

ConstantFP(val) == [k |-> "const", v |-> val]

Argument(fn, idx) == [k |-> "arg", fn |-> fn, idx |-> idx]

InstValue(id) == [k |-> "inst", id |-> id]

\* ErrorV with nothing written to stderr.
ErrorV_Silent(g, Str) == [g |-> g, v |-> NULL]

ErrorV(g, Str) == [g |-> [g EXCEPT !.err = Append(@, Str)], v |-> NULL]

\* Module::getFunction; an unnamed function is not in the symbol table.
getFunction(mod, Name) ==
  IF Name # <<>> /\ \E i \in DOMAIN mod : mod[i].name = Name
  THEN mod[CHOOSE i \in DOMAIN mod : mod[i].name = Name]
  ELSE NULL

FunctionAt(mod, id) == mod[CHOOSE i \in DOMAIN mod : mod[i].id = id]

\* Function::eraseFromParent
eraseFromParent(mod, id) == SelectSeq(mod, LAMBDA f : f.id # id)

\* Whether function f holds a call of the function object id.
CallsFunction(f, id) ==
  \E b \in DOMAIN f.blocks : \E i \in DOMAIN f.blocks[b].insts :
    f.blocks[b].insts[i].op = "call" /\ f.blocks[b].insts[i].a = id

\* Whether another function of the module still uses function id.
HasUses(mod, id) ==
  \E i \in DOMAIN mod : mod[i].id # id /\ CallsFunction(mod[i], id)

\* The name the symbol table gives a value whose requested name is taken.
RECURSIVE UniqueName(_, _)
UniqueName(taken, Name) ==
  IF Name = <<>> \/ Name \notin taken THEN Name
  ELSE UniqueName(taken, Name \o <<"1">>)

\* Function::Create(FT, ExternalLinkage, Name, TheModule)
FunctionCreate(g, Name, NumArgs) ==
  Let([id |-> g.nextFn,
       name |-> UniqueName({g.mod[i].name : i \in DOMAIN g.mod}, Name),
       args |-> [i \in 1..NumArgs |-> <<>>],
       blocks |-> <<>>], LAMBDA Fn :
    [g |-> [g EXCEPT !.mod = Append(@, Fn), !.nextFn = @ + 1], fn |-> Fn])

SetFunction(mod, Fn) ==
  [i \in DOMAIN mod |-> IF mod[i].id = Fn.id THEN Fn ELSE mod[i]]

\* BasicBlock::Create(..., Fn) and getBasicBlockList().push_back
PushBlock(g, fn, bb, label) ==
  [g EXCEPT !.mod = SetFunction(@, [FunctionAt(g.mod, fn) EXCEPT !.blocks =
                      Append(@, [id |-> bb, label |-> label, insts |-> <<>>])])]

SetInsertPoint(g, fn, bb) == [g EXCEPT !.cur = [fn |-> fn, bb |-> bb]]

\* The block list with inst appended to block bb.
InsertInto(blocks, bb, inst) ==
  [j \in DOMAIN blocks |->
     IF blocks[j].id = bb THEN [blocks[j] EXCEPT !.insts = Append(@, inst)]
     ELSE blocks[j]]

\* Builder.Create...: the instruction is appended to the insertion block.
Emit(g, op, a, b) ==
  [g |-> [g EXCEPT
            !.mod = SetFunction(@, [FunctionAt(g.mod, g.cur.fn) EXCEPT !.blocks =
                      InsertInto(@, g.cur.bb,
                                 [id |-> g.nextId, op |-> op, a |-> a, b |-> b])]),
            !.nextId = @ + 1],
   v |-> InstValue(g.nextId)]

\* IncomingBlock with the block as BasicBlock::Create returned it.
IncomingBlock_Created(created, current) == created

\* ThenBB = Builder.GetInsertBlock(): the block a phi edge names is the
\* builder's block once the branch is lowered (current), not the block
\* BasicBlock::Create returned (created).
IncomingBlock(created, current) == current

RECURSIVE ExprCodegen(_, _), CodegenArgs(_, _, _, _)

NumberExprCodegen(node, g) == [g |-> g, v |-> ConstantFP(node.Val)]

\* What Symbols[Name] returns.
Lookup(m, Name) == IF Name \in DOMAIN m THEN m[Name] ELSE NULL

\* Symbols[Name] inserts a null entry for a name the map does not hold.
IdentifierExprCodegen(node, g) ==
  Let([g EXCEPT !.Symbols = IF node.Name \in DOMAIN @ THEN @
                            ELSE (node.Name :> NULL) @@ @,
                !.reads = Append(@, [name |-> node.Name,
                                     v |-> Lookup(g.Symbols, node.Name)])],
      LAMBDA g1 :
        IF Lookup(g.Symbols, node.Name) = NULL
        THEN ErrorV(g1, "Undefined variable")
        ELSE [g |-> g1, v |-> Lookup(g.Symbols, node.Name)])

BinaryExprCodegen(node, g) ==
  Let(ExprCodegen(node.LHS, g), LAMBDA L :
    Let(ExprCodegen(node.RHS, L.g), LAMBDA R :
      IF ~(L.v # NULL /\ R.v # NULL) THEN [g |-> R.g, v |-> NULL]
      ELSE CASE node.Op = "+" -> Emit(R.g, "fadd", L.v, R.v)
             [] node.Op = "-" -> Emit(R.g, "fsub", L.v, R.v)
             [] node.Op = "*" -> Emit(R.g, "fmul", L.v, R.v)
             [] node.Op = "/" -> Emit(R.g, "fdiv", L.v, R.v)
             [] node.Op = "<" -> Let(Emit(R.g, "fcmp_ult", L.v, R.v), LAMBDA Cmp :
                                   Emit(Cmp.g, "uitofp", Cmp.v, NULL))
             [] OTHER         -> ErrorV(R.g, "Unspported binary operator")))

\* The for loop over Args; v carries CallArgs.
CodegenArgs(Args, i, g, CallArgs) ==
  IF i > Len(Args) THEN [g |-> g, v |-> Vector(CallArgs)]
  ELSE Let(ExprCodegen(Args[i], g), LAMBDA A :
         IF A.v = NULL THEN A
         ELSE CodegenArgs(Args, i + 1, A.g, Append(CallArgs, A.v)))

CallExprCodegen(node, g) ==
  Let(getFunction(g.mod, node.Callee), LAMBDA CalleeFn :
    IF CalleeFn = NULL THEN ErrorV(g, "Call to undefined function")
    ELSE IF Len(CalleeFn.args) # Len(node.Args) THEN ErrorV(g, "Incorrect arg count")
    ELSE Let(CodegenArgs(node.Args, 1, g, <<>>), LAMBDA A :
           IF A.v = NULL THEN A
           ELSE Emit(A.g, "call", CalleeFn.id, A.v.list)))

\* The three BasicBlock::Create calls: the blocks are c.nextId (then),
\* c.nextId + 1 (else) and c.nextId + 2 (done), none of them in the function yet.
IfCodegen(node, g) ==
  Let(ExprCodegen(node.Cond, g), LAMBDA C :
    IF C.v = NULL THEN C
    ELSE
    Let(Emit(C.g, "fcmp_one", C.v, ConstantFP(<<0, 0>>)), LAMBDA CondV :
    Let(CondV.g, LAMBDA c :
    Let(Emit([c EXCEPT !.nextId = @ + 3], "condbr", CondV.v,
             <<c.nextId, c.nextId + 1>>), LAMBDA Br :
    Let(ExprCodegen(node.Then,
          SetInsertPoint(PushBlock(Br.g, c.cur.fn, c.nextId, "then"),
                         c.cur.fn, c.nextId)), LAMBDA T :
      IF T.v = NULL THEN T
      ELSE
      Let(Emit(T.g, "br", c.nextId + 2, NULL), LAMBDA TBr :
      Let(ExprCodegen(node.Else,
            SetInsertPoint(PushBlock(TBr.g, c.cur.fn, c.nextId + 1, "else"),
                           c.cur.fn, c.nextId + 1)), LAMBDA E :
        IF E.v = NULL THEN E
        ELSE
        Let(Emit(E.g, "br", c.nextId + 2, NULL), LAMBDA EBr :
        Let(Emit(SetInsertPoint(PushBlock(EBr.g, c.cur.fn, c.nextId + 2, "done"),
                                c.cur.fn, c.nextId + 2),
                 "phi",
                 << <<T.v, IncomingBlock(c.nextId, TBr.g.cur.bb)>>,
                    <<E.v, IncomingBlock(c.nextId + 1, EBr.g.cur.bb)>> >>,
                 NULL), LAMBDA PN :
          [g |-> [PN.g EXCEPT !.ifs = Append(@,
                    [phi |-> PN.v.id, done |-> c.nextId + 2,
                     then |-> c.nextId, else |-> c.nextId + 1,
                     thenV |-> T.v, thenCur |-> TBr.g.cur.bb,
                     elseV |-> E.v, elseCur |-> EBr.g.cur.bb])],
           v |-> PN.v])))))))))

ExprCodegen(node, g) ==
  CASE node.kind = "Number"     -> NumberExprCodegen(node, g)
    [] node.kind = "Identifier" -> IdentifierExprCodegen(node, g)
    [] node.kind = "Binary"     -> BinaryExprCodegen(node, g)
    [] node.kind = "Call"       -> CallExprCodegen(node, g)
    [] node.kind = "If"         -> IfCodegen(node, g)

\* Argument::setName: a name another argument of the function holds is made
\* unique by the function's symbol table.
SetArgName(args, Idx, Name) ==
  IF args[Idx] = Name THEN args
  ELSE [args EXCEPT ![Idx] =
          UniqueName({args[j] : j \in (DOMAIN args) \ {Idx}}, Name)]

\* The for loop that names the arguments and fills Symbols.
RECURSIVE NameArgs(_, _, _, _)
NameArgs(g, fn, Params, Idx) ==
  IF Idx > Len(Params) THEN g
  ELSE NameArgs([g EXCEPT
                   !.mod = SetFunction(@, [FunctionAt(g.mod, fn) EXCEPT !.args =
                             SetArgName(@, Idx, Params[Idx])]),
                   !.Symbols = (Params[Idx] :> Argument(fn, Idx)) @@ @],
                fn, Params, Idx + 1)

\* Collided with the test always false: the function Function::Create
\* returned is kept.
Collided_Never(Fn, Name) == FALSE

\* Fn->getName() != Name
Collided(Fn, Name) == Fn.name # Name

\* The branch of PrototypeNode::Codegen taken on a collision: g holds the
\* module with the new function erased, Fn is TheModule->getFunction(Name).
Rebind(node, g, Fn) ==
  IF Fn.blocks # <<>>
  THEN [g |-> ErrorV(g, "Redefinition of function not allowed").g, fn |-> 0]
  ELSE IF Len(Fn.args) # Len(node.Params)
  THEN [g |-> ErrorV(g, "Redefining function with arity mismatch").g, fn |-> 0]
  ELSE [g |-> NameArgs(g, Fn.id, node.Params, 1), fn |-> Fn.id]

\* PrototypeNode::Codegen: fn is the id of the function returned, 0 for a
\* null pointer.
PrototypeCodegen(node, g) ==
  Let(FunctionCreate(g, node.Name, Len(node.Params)), LAMBDA C :
    IF Collided(C.fn, node.Name)
    THEN Let(eraseFromParent(C.g.mod, C.fn.id), LAMBDA mod :
           Rebind(node, [C.g EXCEPT !.mod = mod], getFunction(mod, node.Name)))
    ELSE [g |-> NameArgs(C.g, C.fn.id, node.Params, 1), fn |-> C.fn.id])

\* Symbols.clear() with the map left as it was.
ClearSymbols_Keep(m) == m

\* Symbols.clear()
ClearSymbols(m) == EmptyMap

\* What destroying a function that other functions still call can do: the
\* destructor's assertion stops the process, or (assertions compiled out) the
\* calls are left pointing at the freed object.
Outcomes == {"abort", "dangling"}

\* The rest of FunctionNode::Codegen once the prototype gave function fn:
\* the entry block, the body, and the return or the erasure.
BodyCodegen(node, g, fn, ub) ==
  Let(ExprCodegen(node.Body,
        SetInsertPoint(PushBlock([g EXCEPT !.nextId = @ + 1], fn, g.nextId, "entry"),
                       fn, g.nextId)), LAMBDA B :
    IF B.v = NULL
    THEN [g |-> [B.g EXCEPT !.mod = eraseFromParent(@, fn)],
          fn |-> 0, proto |-> fn,
          aborted |-> (ub = "abort" /\ HasUses(B.g.mod, fn))]
    ELSE [g |-> Emit(B.g, "ret", B.v, NULL).g,
          fn |-> fn, proto |-> fn, aborted |-> FALSE])

\* FunctionNode::Codegen: fn is the id of the function returned or 0,
\* proto what the prototype's lowering returned, aborted whether the process
\* was stopped.
FunctionCodegen(node, g, ub) ==
  Let(PrototypeCodegen(node.Prototype,
                       [g EXCEPT !.Symbols = ClearSymbols(@), !.nextId = 1]), LAMBDA P :
    IF P.fn = 0
    THEN [g |-> P.g, fn |-> 0, proto |-> 0, aborted |-> FALSE]
    ELSE BodyCodegen(node, P.g, P.fn, ub))

-----------------------------------------------------------------------------
(* The globals of the front end as one record, and back. *)

Front ==
  [input |-> input, LastChar |-> LastChar, IdentifierStr |-> IdentifierStr,
   NumVal |-> NumVal, CurTok |-> CurTok, err |-> <<>>, gets |-> 0]

SetFront(s) ==
  /\ input' = s.input
  /\ LastChar' = s.LastChar
  /\ IdentifierStr' = s.IdentifierStr
  /\ NumVal' = s.NumVal
  /\ CurTok' = s.CurTok

\* The state after construction of the statics, with stdin holding text.
InitFront(text) ==
  /\ input = text
  /\ LastChar = " "
  /\ IdentifierStr = <<>>
  /\ NumVal = <<0, 0>>
  /\ CurTok = NUL

InitBackend ==
  /\ TheModule = <<>>
  /\ Symbols = EmptyMap
  /\ InsertBlock = NULL
  /\ nextFn = 1

\* The history record of a step that handled no form.
NoStep ==
  [form |-> "none", parsed |-> FALSE, lowered |-> FALSE, ast |-> NULL,
   err |-> <<>>, gets |-> 0, getsAfter |-> 0, fn |-> 0, proto |-> 0,
   reads |-> <<>>, ifs |-> <<>>, before |-> <<>>]

Back ==
  [mod |-> TheModule, Symbols |-> Symbols, cur |-> InsertBlock, nextFn |-> nextFn,
   nextId |-> 1, err |-> <<>>, reads |-> <<>>, ifs |-> <<>>]

SetBack(g) ==
  /\ TheModule' = g.mod
  /\ Symbols' = g.Symbols
  /\ InsertBlock' = g.cur
  /\ nextFn' = g.nextFn

-----------------------------------------------------------------------------
(* runloop.cpp *)

\* getNextToken() with the token stream left where it is.
SkipToken_Stay(s) == s

\* The else branch of a handler: getNextToken().
SkipToken(s) == getNextToken(s)

\* The part of RunLoop before the loop.
Start ==
  /\ pc = "start"
  /\ SetFront(getNextToken(Front))
  /\ pc' = "loop"
  /\ last' = [NoStep EXCEPT !.form = "start", !.gets = 1]
  /\ UNCHANGED <<TheModule, Symbols, InsertBlock, nextFn, given>>

\* case tok_eof: return
LoopEof ==
  /\ pc = "loop"
  /\ CurTok = tok_eof
  /\ pc' = "done"
  /\ last' = [NoStep EXCEPT !.form = "eof", !.before = TheModule]
  /\ UNCHANGED <<input, LastChar, IdentifierStr, NumVal, CurTok, TheModule, Symbols,
                 InsertBlock, nextFn, given>>

\* case ';': getNextToken()
LoopSemicolon ==
  /\ pc = "loop"
  /\ CurTok = ";"
  /\ SetFront(getNextToken(Front))
  /\ last' = [NoStep EXCEPT !.form = "semicolon", !.gets = 1, !.before = TheModule]
  /\ UNCHANGED <<TheModule, Symbols, InsertBlock, nextFn, pc, given>>

\* What a handler did: P the parse, s the front end when the handler returns,
\* G the lowering (fn: the function returned or 0).
Handled(form, P, s, G) ==
  [s |-> s, g |-> G.g, aborted |-> G.aborted,
   last |-> [form |-> form, parsed |-> (P.node # NULL), lowered |-> (G.fn # 0),
             ast |-> P.node, err |-> s.err \o G.g.err, gets |-> s.gets,
             getsAfter |-> s.gets - P.s.gets, fn |-> G.fn, proto |-> G.proto,
             reads |-> G.g.reads, ifs |-> G.g.ifs, before |-> TheModule]]

NotLowered == [g |-> Back, fn |-> 0, proto |-> 0, aborted |-> FALSE]

\* The handler takes effect.
Return(H) ==
  /\ SetFront(H.s)
  /\ SetBack(H.g)
  /\ pc' = IF H.aborted THEN "aborted" ELSE "loop"
  /\ last' = H.last
  /\ UNCHANGED given

\* HandleFunction
HandleFunction ==
  /\ pc = "loop"
  /\ CurTok = tok_def
  /\ \E ub \in Outcomes :
       Return(Let(ParseFunction(Front), LAMBDA P :
                IF P.node # NULL
                THEN Handled("def", P, P.s, FunctionCodegen(P.node, Back, ub))
                ELSE Handled("def", P, SkipToken(P.s), NotLowered)))

\* The Function* of a prototype's lowering, as a handler's result.
Declared(Pr) == [g |-> Pr.g, fn |-> Pr.fn, proto |-> Pr.fn, aborted |-> FALSE]

\* HandleExtern
HandleExtern ==
  /\ pc = "loop"
  /\ CurTok = tok_extern
  /\ Return(Let(ParseExtern(Front), LAMBDA P :
              IF P.node # NULL
              THEN Handled("extern", P, P.s, Declared(PrototypeCodegen(P.node, Back)))
              ELSE Handled("extern", P, SkipToken(P.s), NotLowered)))

\* HandleTopLevelExpression; the compiled function is then run by the
\* execution engine, which belongs to the backend.
HandleTopLevelExpression ==
  /\ pc = "loop"
  /\ CurTok \notin {tok_eof, ";", tok_def, tok_extern}
  /\ \E ub \in Outcomes :
       Return(Let(ParseTopLevelExpr(Front), LAMBDA P :
                IF P.node # NULL
                THEN Handled("expr", P, P.s, FunctionCodegen(P.node, Back, ub))
                ELSE Handled("expr", P, SkipToken(P.s), NotLowered)))

\* RunLoop
Next ==
  \/ Start
  \/ LoopEof
  \/ LoopSemicolon
  \/ HandleFunction
  \/ HandleExtern
  \/ HandleTopLevelExpression

-----------------------------------------------------------------------------
(* The REPL on a bounded stdin: Spec. *)

\* The most top-level forms typed before the end of input.
MaxForms == 3

\* The texts stdin is made of.
Forms ==
  <<
    \* 1: extern f(a);   (a declaration)
    <<"e", "x", "t", "e", "r", "n", " ", "f", "(", "a", ")", ";">>,
    \* 2: def g(x) f(x);   (a definition that calls f)
    <<"d", "e", "f", " ", "g", "(", "x", ")", " ", "f", "(", "x", ")", ";">>,
    \* 3: def f(b) x;   (a definition whose body names no parameter of it)
    <<"d", "e", "f", " ", "f", "(", "b", ")", " ", "x", ";">>,
    \* 4: def f(b) b+1;   (a definition)
    <<"d", "e", "f", " ", "f", "(", "b", ")", " ", "b", "+", "1", ";">>,
    \* 5: a+x;   (an expression, both operands unbound)
    <<"a", "+", "x", ";">>,
    \* 6: def h(c c) c;   (a parameter name given twice)
    <<"d", "e", "f", " ", "h", "(", "c", " ", "c", ")", " ", "c", ";">>,
    \* 7: def f(1);   (a prototype that does not parse)
    <<"d", "e", "f", " ", "f", "(", "1", ")", ";">>,
    \* 8: extern f(a b);   (a declaration of f with two parameters)
    <<"e", "x", "t", "e", "r", "n", " ", "f", "(", "a", " ", "b", ")", ";">>,
    \* 9: g(1.2.3);   (an expression that calls g)
    <<"g", "(", "1", ".", "2", ".", "3", ")", ";">>,
    \* 10: extern # f\n;   (a declaration without a name, and a comment)
    <<"e", "x", "t", "e", "r", "n", " ", "#", " ", "f", "\n", ";">>,
    \* 11: extern h(a b);   (a declaration of h)
    <<"e", "x", "t", "e", "r", "n", " ", "h", "(", "a", " ", "b", ")", ";">>
  >>

RECURSIVE Concat(_, _)
Concat(pick, i) ==
  IF i > Len(pick) THEN <<>> ELSE Forms[pick[i]] \o Concat(pick, i + 1)

Inputs ==
  { [kind |-> "forms", pick |-> pick, text |-> Concat(pick, 1)]
    : pick \in UNION { [1..n -> DOMAIN Forms] : n \in 0..MaxForms } }

Init ==
  /\ given \in Inputs
  /\ InitFront(given.text)
  /\ InitBackend
  /\ pc = "start"
  /\ last = NoStep

Spec == Init /\ [][Next]_vars

\* The last step handled a top-level form and the form failed.
FormFailed ==
  /\ last.form \in {"def", "extern", "expr"}
  /\ ~(last.parsed /\ last.lowered)

\* C3 as stated: whenever a top-level form fails, in parsing or in lowering,
\* the driver calls getNextToken exactly once after the failure.
C3_AdvancesOnEveryFailure == FormFailed => last.getsAfter = 1

\* C3, amended: a form that fails in parsing is followed by exactly one
\* getNextToken call of the driver; a form that parsed and fails in lowering is
\* followed by none.
C3_AdvancesOnParseFailure ==
  FormFailed => last.getsAfter = (IF last.parsed THEN 0 ELSE 1)

\* A definition has failed in parsing and the driver has skipped a token.
C3_Witness ==
  /\ FormFailed /\ last.form = "def"
  /\ ~last.parsed /\ last.getsAfter = 1

\* C4: the driver loop stops only by seeing the end-of-input token.
C4_StopsOnlyAtEof ==
  pc \notin {"start", "loop"} => (pc = "done" /\ CurTok = tok_eof)

\* C5 as stated: every top-level form that fails writes exactly one line to
\* stderr.
C5_ExactlyOneDiagnostic == FormFailed => Len(last.err) = 1

\* C5, amended: every top-level form that fails writes at least one line to
\* stderr, and exactly one when it fails in parsing or in the lowering of a
\* declaration; a form that succeeds writes none.
C5_AtLeastOneDiagnostic ==
  last.form \in {"def", "extern", "expr"} =>
    /\ FormFailed => Len(last.err) >= 1
    /\ (~last.parsed \/ (last.form = "extern" /\ ~last.lowered)) => Len(last.err) = 1
    /\ ~FormFailed => last.err = <<>>

\* An expression whose two operands both fail to lower has written two lines.
C5_Witness ==
  /\ FormFailed /\ last.parsed
  /\ last.ast.Body.kind = "Binary"
  /\ Len(last.err) = 2

\* The prototype of the form the last step handled.
LastPrototype == IF last.form = "extern" THEN last.ast ELSE last.ast.Prototype

\* The function of that name in the module before the step.
Existing == getFunction(last.before, LastPrototype.Name)

\* The last step lowered a def or extern whose name was held by a function
\* without a body and with the same number of parameters.
RebindCase ==
  /\ last.form \in {"def", "extern"} /\ last.parsed
  /\ Existing # NULL
  /\ Existing.blocks = <<>>
  /\ Len(Existing.args) = Len(LastPrototype.Params)

NoDuplicates(seq) == \A i, j \in DOMAIN seq : seq[i] = seq[j] => i = j

C7_BindingsAccumulate ==
  \A i \in DOMAIN last.before :
    last.before[i].name # <<>> =>
      getFunction(TheModule, last.before[i].name) # NULL

\* The index of the last parameter called Name.
LastIndex(Params, Name) ==
  CHOOSE j \in DOMAIN Params :
    Params[j] = Name /\ \A k \in DOMAIN Params : Params[k] = Name => k <= j

\* C8: an identifier lowered in a function body resolves to the last
\* parameter of that name of the prototype being lowered, and to nothing
\* ("Undefined variable", the form fails) when the prototype has no such
\* parameter, whatever earlier forms bound.
C8_SymbolScope ==
  last.form \in {"def", "expr"} =>
    \A i \in DOMAIN last.reads :
      IF \E j \in DOMAIN LastPrototype.Params :
            LastPrototype.Params[j] = last.reads[i].name
      THEN last.reads[i].v =
             Argument(last.proto, LastIndex(LastPrototype.Params, last.reads[i].name))
      ELSE /\ last.reads[i].v = NULL
           /\ ~last.lowered
           /\ \E k \in DOMAIN last.err : last.err[k] = "Undefined variable"

\* A body has named a parameter of a function an earlier form left in the
\* module, and the name was not found.
C8_Witness ==
  /\ last.form = "def"
  /\ \E i \in DOMAIN last.reads :
       /\ last.reads[i].v = NULL
       /\ \E f \in DOMAIN last.before : \E a \in DOMAIN last.before[f].args :
            last.before[f].args[a] = last.reads[i].name

\* C10: every call instruction of a function of the module targets a function
\* of the module.
C10_CallTargetsAttached ==
  \A i \in DOMAIN TheModule :
    \A b \in DOMAIN TheModule[i].blocks :
      \A k \in DOMAIN TheModule[i].blocks[b].insts :
        TheModule[i].blocks[b].insts[k].op = "call" =>
          \E j \in DOMAIN TheModule :
            TheModule[j].id = TheModule[i].blocks[b].insts[k].a

-----------------------------------------------------------------------------
(* ParseExpression as a function of the input text: SpecParse. *)

\* Primary expressions, each with the text and the tree it denotes.
Primaries ==
  { [src |-> <<"a">>, ast |-> IdentifierExprNode(<<"a">>)],
    [src |-> <<"1", ".", "5">>, ast |-> NumberExprNode(<<15, 1>>)],
    [src |-> <<"(", "b", ")">>, ast |-> IdentifierExprNode(<<"b">>)],
    [src |-> <<"f", "(", "c", ",", "2", ")">>,
     ast |-> CallExprNode(<<"f">>, <<IdentifierExprNode(<<"c">>), NumberExprNode(<<2, 0>>)>>)],
    [src |-> <<"(", "x", "<", "y", ")">>,
     ast |-> BinaryExprNode("<", IdentifierExprNode(<<"x">>), IdentifierExprNode(<<"y">>))] }

BinOps == {"<", "+", "-", "*", "/"}

\* a op1 b op2 c
ChainInputs ==
  { [kind |-> "chain", a |-> a, op1 |-> op1, b |-> b, op2 |-> op2, c |-> c,
     text |-> a.src \o <<op1>> \o b.src \o <<op2>> \o c.src]
    : a \in Primaries, op1 \in BinOps, b \in Primaries, op2 \in BinOps, c \in Primaries }

\* if c then t else e
IfInputs ==
  { [kind |-> "if", c |-> c, t |-> t, e |-> e,
     text |-> <<"i", "f", " ">> \o c.src \o <<" ", "t", "h", "e", "n", " ">> \o t.src
              \o <<" ", "e", "l", "s", "e", " ">> \o e.src]
    : c \in Primaries, t \in Primaries, e \in Primaries }

InitParse ==
  /\ given \in ChainInputs \cup IfInputs
  /\ InitFront(given.text)
  /\ InitBackend
  /\ pc = "parse"
  /\ last = NoStep

\* getNextToken(); ParseExpression();
Parsed(r) ==
  [s |-> r.s,
   last |-> [NoStep EXCEPT !.form = "parse", !.parsed = (r.node # NULL),
                           !.ast = r.node, !.err = r.s.err, !.gets = r.s.gets]]

ParseStep ==
  /\ pc = "parse"
  /\ Let(Parsed(ParseExpression(getNextToken(Front))), LAMBDA H :
       SetFront(H.s) /\ last' = H.last)
  /\ pc' = "parsed"
  /\ UNCHANGED <<TheModule, Symbols, InsertBlock, nextFn, given>>

NextParse == ParseStep

SpecParse == InitParse /\ [][NextParse]_vars

\* The precedences as the specification's table gives them.
TablePrec(op) == CASE op = "<" -> 10 [] op \in {"+", "-"} -> 20 [] op \in {"*", "/"} -> 40

\* C1: a op1 b op2 c parses as a op1 (b op2 c) when prec(op1) < prec(op2), and
\* as (a op1 b) op2 c when prec(op1) >= prec(op2); equal precedences associate
\* to the left.
C1_Precedence ==
  (pc = "parsed" /\ given.kind = "chain") =>
    last.ast = IF TablePrec(given.op1) < TablePrec(given.op2)
               THEN BinaryExprNode(given.op1, given.a.ast,
                                   BinaryExprNode(given.op2, given.b.ast, given.c.ast))
               ELSE BinaryExprNode(given.op2,
                                   BinaryExprNode(given.op1, given.a.ast, given.b.ast),
                                   given.c.ast)

\* a - b - c has been parsed, to (a - b) - c.
C1_Witness ==
  /\ pc = "parsed" /\ given.kind = "chain"
  /\ given.op1 = "-" /\ given.op2 = "-"
  /\ last.ast.kind = "Binary" /\ last.ast.LHS.kind = "Binary"

\* C2: on the keyword if, the primary-expression parser accepts
\* if <cond> then <then-expr> else <else-expr> and returns an If node with
\* those three children.
C2_IfParses ==
  (pc = "parsed" /\ given.kind = "if") =>
    last.ast = IfNode(given.c.ast, given.t.ast, given.e.ast)

-----------------------------------------------------------------------------
(* FunctionNode::Codegen as a function of the tree: SpecLower.  The parser  *)
(* builds no If node, so the trees are built here, with the constructors of *)
(* ast.cpp.                                                                 *)

\* The most If nodes in a body.
MaxIfs == 2

\* x is the parameter of the function lowered, y is bound nowhere.
Leaves ==
  { IdentifierExprNode(<<"x">>), NumberExprNode(<<1, 0>>), IdentifierExprNode(<<"y">>) }

\* The expressions with exactly n If nodes.
RECURSIVE Bodies(_)
Bodies(n) ==
  IF n = 0 THEN Leaves
  ELSE UNION { { IfNode(c, th, el) :
                   c \in Bodies(i), th \in Bodies(j), el \in Bodies(n - 1 - i - j) }
               : <<i, j>> \in { ij \in (0 .. n - 1) \X (0 .. n - 1) :
                                  ij[1] + ij[2] <= n - 1 } }

LowerInputs ==
  { [kind |-> "lower",
     ast |-> FunctionNode(PrototypeNode(<<"f">>, << <<"x">> >>), body)]
    : body \in UNION { Bodies(n) : n \in 0 .. MaxIfs } }

InitLower ==
  /\ given \in LowerInputs
  /\ InitFront(<<>>)
  /\ InitBackend
  /\ pc = "lower"
  /\ last = NoStep

\* F->Codegen()
Lowered(node, s, G) == Handled("lower", [s |-> s, node |-> node], s, G)

LowerStep ==
  /\ pc = "lower"
  /\ \E ub \in Outcomes :
       Let(Lowered(given.ast, Front, FunctionCodegen(given.ast, Back, ub)), LAMBDA H :
         /\ SetBack(H.g)
         /\ last' = H.last
         /\ pc' = IF H.aborted THEN "aborted" ELSE "lowered")
  /\ UNCHANGED <<input, LastChar, IdentifierStr, NumVal, CurTok, given>>

NextLower == LowerStep

SpecLower == InitLower /\ [][NextLower]_vars

Terminators == {"br", "condbr", "ret"}

\* The block of function F with the id bb.
BlockAt(F, bb) == F.blocks[CHOOSE b \in DOMAIN F.blocks : F.blocks[b].id = bb]

\* The blocks of F that end in a branch to the block bb.
BranchesTo(F, bb) ==
  { F.blocks[b].id : b \in { k \in DOMAIN F.blocks :
        /\ F.blocks[k].insts # <<>>
        /\ F.blocks[k].insts[Len(F.blocks[k].insts)].op = "br"
        /\ F.blocks[k].insts[Len(F.blocks[k].insts)].a = bb } }

\* The phi node of the If logged as e has the two incoming pairs e names, from
\* the blocks that branch to its block, and is the first instruction there.
PhiWellFormed(F, e) ==
  /\ BlockAt(F, e.done).insts[1].id = e.phi
  /\ BlockAt(F, e.done).insts[1].op = "phi"
  /\ BlockAt(F, e.done).insts[1].a
       = << <<e.thenV, e.thenCur>>, <<e.elseV, e.elseCur>> >>
  /\ e.thenCur # e.elseCur
  /\ BranchesTo(F, e.done) = {e.thenCur, e.elseCur}

\* The block ends in a terminator and holds no other.
OneTerminator(B) ==
  /\ B.insts # <<>>
  /\ \A k \in DOMAIN B.insts : (B.insts[k].op \in Terminators) <=> (k = Len(B.insts))

\* C9: in a function that lowered, the phi node of every If has exactly two
\* incoming pairs, the values of the two branches with the blocks the builder
\* was in when each branch was finished, and those are the blocks that branch
\* to the phi's block; every block has exactly one terminator, its last
\* instruction.
C9_PhiAndTerminators ==
  (pc = "lowered" /\ last.lowered) =>
    /\ \A i \in DOMAIN last.ifs :
         PhiWellFormed(FunctionAt(TheModule, last.fn), last.ifs[i])
    /\ \A b \in DOMAIN FunctionAt(TheModule, last.fn).blocks :
         OneTerminator(FunctionAt(TheModule, last.fn).blocks[b])

\* A function has lowered whose If has an If in its then branch: the branch
\* ended in another block than the one it began in.
C9_Witness ==
  /\ pc = "lowered" /\ last.lowered
  /\ Len(last.ifs) = 2
  /\ \E i \in DOMAIN last.ifs : last.ifs[i].thenCur # last.ifs[i].then

====
